---- MODULE Spec2Model ----
(***************************************************************************)
(* Lekhani (src/lekhani.c, the revision with cursor movement): the raw-mode *)
(* lifecycle, the key decoder, the geometry resolver, the frame renderer    *)
(* and the editor loop, as one state machine.                               *)
(***************************************************************************)
EXTENDS Integers, Sequences, FiniteSets, TLC

(***************************************************************************)
(* Bounds of the model.                                                     *)
(***************************************************************************)
\* largest row / column count the window-size query reports
MaxDim == 3
\* longest tail of further input behind a sequence given to the decoder
MaxTail == 2

(***************************************************************************)
(* Character codes of the literals the source compares bytes with.          *)
(***************************************************************************)
Ord ==
  [esc |-> 27, lbracket |-> 91, O |-> 79, tilde |-> 126, semi |-> 59,
   A |-> 65, B |-> 66, C |-> 67, D |-> 68, F |-> 70, H |-> 72, R |-> 82,
   q |-> 113, dc1 |-> 17, x |-> 120, y |-> 121, zero |-> 48, nine |-> 57, hi |-> 200]

\* CharToInt with the byte masked as CTRL_KEY masks it
CharToInt_Masked(b) == b % 32

\* char is signed in the build (gcc, x86 Linux): a byte above 127 read into
\* `char c` is a negative int when returned
CharToInt(b) == IF b >= 128 THEN b - 256 ELSE b

\* CTRL_KEY with the mask 0x3f
CTRL_KEY_Wide(k) == k % 64

\* CTRL_KEY(k) ((k) & 0x1f)
CTRL_KEY(k) == k % 32

\* enum editorKey
ARROW_LEFT == 1000
ARROW_RIGHT == ARROW_LEFT + 1
ARROW_UP == ARROW_LEFT + 2
ARROW_DOWN == ARROW_LEFT + 3
DEL_KEY == ARROW_LEFT + 4
HOME_KEY == ARROW_LEFT + 5
END_KEY == ARROW_LEFT + 6
PAGE_UP == ARROW_LEFT + 7
PAGE_DOWN == ARROW_LEFT + 8

NamedKeys ==
  {ARROW_LEFT, ARROW_RIGHT, ARROW_UP, ARROW_DOWN, DEL_KEY, HOME_KEY, END_KEY,
   PAGE_UP, PAGE_DOWN}

(***************************************************************************)
(* The terminal configuration (struct termios), as the flags and control    *)
(* characters enableRawMode touches.                                        *)
(***************************************************************************)
\* the zero-initialised static struct editorConfig E
ZeroTermios ==
  [iflag |-> {}, oflag |-> {}, cflag |-> {}, lflag |-> {}, vmin |-> 0,
   vtime |-> 0]

\* configurations the terminal can be in when the program starts
StartTermios ==
  { [iflag |-> {"BRKINT", "ICRNL", "IXON"}, oflag |-> {"OPOST"},
     cflag |-> {"CS8"}, lflag |-> {"ECHO", "ICANON", "IEXTEN", "ISIG"},
     vmin |-> 1, vtime |-> 0],
    [iflag |-> {"ICRNL", "INPCK", "ISTRIP"}, oflag |-> {"OPOST"},
     cflag |-> {}, lflag |-> {"ECHO", "ICANON", "ISIG"},
     vmin |-> 1, vtime |-> 2] }

\* raw.c_cc[VTIME] = 0.1: the double 0.1 converted to cc_t (unsigned char)
\* is truncated toward zero
VTimeTenths == 1 \div 10

\* struct termios raw = E.orig_termios; followed by the flag edits
RawOf(t) ==
  [iflag |-> t.iflag \ {"BRKINT", "ICRNL", "INPCK", "ISTRIP", "IXON"},
   oflag |-> t.oflag \ {"OPOST"},
   cflag |-> t.cflag \cup {"CS8"},
   lflag |-> t.lflag \ {"ECHO", "ICANON", "IEXTEN", "ISIG"},
   vmin |-> 0,
   vtime |-> VTimeTenths]

(***************************************************************************)
(* Output: a write is the file descriptor, the pieces written and the byte  *)
(* count.  A piece is a string literal of the source with its byte length;  *)
(* the cursor position command carries its two numbers.                     *)
(***************************************************************************)
Piece(s, len) == [s |-> s, row |-> 0, col |-> 0, len |-> len]

ClearScreen == Piece("ESC[2J", 4)
CursorHome == Piece("ESC[H", 3)
HideCursor == Piece("ESC[?25l", 6)
ShowCursor == Piece("ESC[?25h", 6)
ClearLine == Piece("ESC[K", 3)
Tilde == Piece("~", 1)
Space == Piece(" ", 1)
CrLf == Piece("CRLF", 2)
CursorFarRightDown == Piece("ESC[999C ESC[999B", 12)
CursorQuery == Piece("ESC[6n", 4)

\* write(fd, s, len) of one string literal
Write(fd, piece) == [fd |-> fd, data |-> <<piece>>, len |-> piece.len]

\* write(STDOUT_FILENO, ab.b, ab.len)
WriteBuffer(ab) == [fd |-> 1, data |-> ab.b, len |-> ab.len]

\* perror(msg) on the standard error stream
Perror(msg) == Write(2, Piece(msg, 0))

VARIABLES
  pc,            \* where main is: "main", "enableRawMode", "initEditor",
                 \* "refresh", "key", "done"
  term,          \* the configuration the terminal driver holds
  orig_termios,  \* E.orig_termios
  atexitSet,     \* disableRawMode is registered with atexit
  restored,      \* times disableRawMode has run
  exitStatus,    \* "running", "success", "failure", "abort"
  cx, cy,        \* E.cx, E.cy
  screenRows,    \* E.screenRows
  screenCols,    \* E.screenCols
  stdin,         \* outcomes of the coming read calls on standard input
  key,           \* value returned by the last editorReadKey
  nbytes,        \* bytes the last editorReadKey consumed
  ws,            \* getWindowSize's struct winsize ws and what ioctl returned
  out            \* writes made by the last step, in order

vars ==
  <<pc, term, orig_termios, atexitSet, restored, exitStatus, cx, cy,
    screenRows, screenCols, stdin, key, nbytes, ws, out>>

(***************************************************************************)
(* Standard input: the outcome of each coming read(STDIN_FILENO, &c, 1).    *)
(* With VMIN = 0 a read that finds nothing pending returns 0.               *)
(***************************************************************************)
Byte(b) == [ret |-> 1, c |-> b, errno |-> "none"]
Timeout == [ret |-> 0, c |-> 0, errno |-> "none"]
ReadError(e) == [ret |-> -1, c |-> 0, errno |-> e]

Bytes(seq) == [i \in 1..Len(seq) |-> Byte(seq[i])]

\* Read1 for a caller that tests the result against -1 instead of 1: a read
\* that returns 0 passes for a byte, the zero the buffer was initialised with
Read1_ZeroIsByte(s) ==
  IF s = <<>>
    THEN [ret |-> 1, c |-> 0, rest |-> <<>>]
    ELSE [ret |-> IF Head(s).ret = 0 THEN 1 ELSE Head(s).ret,
          c |-> Head(s).c, rest |-> Tail(s)]

\* one read call on the stream s: its return value, the byte, what is left
Read1(s) ==
  IF s = <<>>
    THEN [ret |-> 0, c |-> 0, rest |-> <<>>]
    ELSE [ret |-> Head(s).ret, c |-> Head(s).c, rest |-> Tail(s)]

\* while ((nread = read(STDIN_FILENO, &c, 1)) != 1)
\*     if (nread == -1 && errno != EAGAIN) die("read");
RECURSIVE FirstByte(_)
FirstByte(s) ==
  IF s = <<>>
    THEN [st |-> "blocked", c |-> 0, rest |-> s]
    ELSE IF Head(s).ret = 1
      THEN [st |-> "byte", c |-> Head(s).c, rest |-> Tail(s)]
      ELSE IF Head(s).ret = -1 /\ Head(s).errno # "EAGAIN"
        THEN [st |-> "die", c |-> 0, rest |-> Tail(s)]
        ELSE FirstByte(Tail(s))

KeyResult(k, rest, n) == [st |-> "key", key |-> k, rest |-> rest, nbytes |-> n]

\* IsDigit with the lower comparison strict
IsDigit_Strict(c) == CharToInt(c) > Ord.zero /\ CharToInt(c) <= Ord.nine

IsDigit(c) == CharToInt(c) >= Ord.zero /\ CharToInt(c) <= Ord.nine

\* TildeKey without the cases '7' and '8'
TildeKey_Short(c) ==
  CASE c = Ord.zero + 1 -> HOME_KEY
    [] c = Ord.zero + 3 -> DEL_KEY
    [] c = Ord.zero + 4 -> END_KEY
    [] c = Ord.zero + 5 -> PAGE_UP
    [] c = Ord.zero + 6 -> PAGE_DOWN
    [] OTHER -> Ord.esc

\* switch (seq[1]) of the "[d~" sequences
TildeKey(c) ==
  CASE c = Ord.zero + 1 -> HOME_KEY
    [] c = Ord.zero + 3 -> DEL_KEY
    [] c = Ord.zero + 4 -> END_KEY
    [] c = Ord.zero + 5 -> PAGE_UP
    [] c = Ord.zero + 6 -> PAGE_DOWN
    [] c = Ord.zero + 7 -> HOME_KEY
    [] c = Ord.zero + 8 -> END_KEY
    [] OTHER -> Ord.esc

\* BracketKey with the cases 'C' and 'D' exchanged
BracketKey_Swapped(c) ==
  CASE c = Ord.A -> ARROW_UP
    [] c = Ord.B -> ARROW_DOWN
    [] c = Ord.C -> ARROW_LEFT
    [] c = Ord.D -> ARROW_RIGHT
    [] c = Ord.H -> HOME_KEY
    [] c = Ord.F -> END_KEY
    [] OTHER -> Ord.esc

\* switch (seq[1]) of the "[X" sequences
BracketKey(c) ==
  CASE c = Ord.A -> ARROW_UP
    [] c = Ord.B -> ARROW_DOWN
    [] c = Ord.C -> ARROW_RIGHT
    [] c = Ord.D -> ARROW_LEFT
    [] c = Ord.H -> HOME_KEY
    [] c = Ord.F -> END_KEY
    [] OTHER -> Ord.esc

\* switch (seq[1]) of the "OX" sequences
OKey(c) ==
  CASE c = Ord.H -> HOME_KEY
    [] c = Ord.F -> END_KEY
    [] OTHER -> Ord.esc

\* editorReadKey that, when the read after ESC and one byte returns no byte,
\* keeps that one byte for the next call
editorReadKey_KeepsByte(s) ==
  LET f == FirstByte(s) IN
  IF f.st # "byte"
    THEN [st |-> f.st, key |-> 0, rest |-> f.rest, nbytes |-> 0]
  ELSE IF f.c # Ord.esc
    THEN KeyResult(CharToInt(f.c), f.rest, 1)
  ELSE
    LET r0 == Read1(f.rest) IN
    IF r0.ret # 1 THEN KeyResult(Ord.esc, r0.rest, 1)
    ELSE
      LET r1 == Read1(r0.rest) IN
      IF r1.ret # 1 THEN KeyResult(Ord.esc, <<Byte(r0.c)>> \o r1.rest, 1)
      ELSE IF r0.c = Ord.lbracket
        THEN IF IsDigit(r1.c)
          THEN LET r2 == Read1(r1.rest) IN
               IF r2.ret # 1 THEN KeyResult(Ord.esc, r2.rest, 3)
               ELSE IF r2.c = Ord.tilde
                 THEN KeyResult(TildeKey(r1.c), r2.rest, 4)
                 ELSE KeyResult(Ord.esc, r2.rest, 4)
          ELSE KeyResult(BracketKey(r1.c), r1.rest, 3)
      ELSE IF r0.c = Ord.O
        THEN KeyResult(OKey(r1.c), r1.rest, 3)
        ELSE KeyResult(Ord.esc, r1.rest, 3)

\* editorReadKey whose first read after ESC waits for a byte as the read of
\* the first byte does
editorReadKey_WaitsForRest(s) ==
  LET f == FirstByte(s) IN
  IF f.st # "byte"
    THEN [st |-> f.st, key |-> 0, rest |-> f.rest, nbytes |-> 0]
  ELSE IF f.c # Ord.esc
    THEN KeyResult(CharToInt(f.c), f.rest, 1)
  ELSE
    LET r0 == FirstByte(f.rest) IN
    IF r0.st # "byte"
      THEN [st |-> r0.st, key |-> 0, rest |-> r0.rest, nbytes |-> 0]
    ELSE
      LET r1 == Read1(r0.rest) IN
      IF r1.ret # 1 THEN KeyResult(Ord.esc, r1.rest, 2)
      ELSE IF r0.c = Ord.lbracket
        THEN IF IsDigit(r1.c)
          THEN LET r2 == Read1(r1.rest) IN
               IF r2.ret # 1 THEN KeyResult(Ord.esc, r2.rest, 3)
               ELSE IF r2.c = Ord.tilde
                 THEN KeyResult(TildeKey(r1.c), r2.rest, 4)
                 ELSE KeyResult(Ord.esc, r2.rest, 4)
          ELSE KeyResult(BracketKey(r1.c), r1.rest, 3)
      ELSE IF r0.c = Ord.O
        THEN KeyResult(OKey(r1.c), r1.rest, 3)
        ELSE KeyResult(Ord.esc, r1.rest, 3)

\* editorReadKey on the stream s: the key returned, the stream left, the
\* number of bytes consumed; st = "die" when die("read") is called and
\* st = "blocked" while the first loop has no byte to return
editorReadKey(s) ==
  LET f == FirstByte(s) IN
  IF f.st # "byte"
    THEN [st |-> f.st, key |-> 0, rest |-> f.rest, nbytes |-> 0]
  ELSE IF f.c # Ord.esc
    THEN KeyResult(CharToInt(f.c), f.rest, 1)
  ELSE
    LET r0 == Read1(f.rest) IN
    IF r0.ret # 1 THEN KeyResult(Ord.esc, r0.rest, 1)
    ELSE
      LET r1 == Read1(r0.rest) IN
      IF r1.ret # 1 THEN KeyResult(Ord.esc, r1.rest, 2)
      ELSE IF r0.c = Ord.lbracket
        THEN IF IsDigit(r1.c)
          THEN LET r2 == Read1(r1.rest) IN
               IF r2.ret # 1 THEN KeyResult(Ord.esc, r2.rest, 3)
               ELSE IF r2.c = Ord.tilde
                 THEN KeyResult(TildeKey(r1.c), r2.rest, 4)
                 ELSE KeyResult(Ord.esc, r2.rest, 4)
          ELSE KeyResult(BracketKey(r1.c), r1.rest, 3)
      ELSE IF r0.c = Ord.O
        THEN KeyResult(OKey(r1.c), r1.rest, 3)
        ELSE KeyResult(Ord.esc, r1.rest, 3)

(***************************************************************************)
(* Geometry resolver.                                                       *)
(***************************************************************************)
\* struct winsize ws while getWindowSize is not running
NoWinsize == [ret |-> 0, ws_row |-> 0, ws_col |-> 0]

\* outcomes of ioctl(STDOUT_FILENO, TIOCGWINSZ, &ws)
IoctlResults ==
  {[ret |-> -1, ws_row |-> 0, ws_col |-> 0]} \cup
  {[ret |-> 0, ws_row |-> r, ws_col |-> c] : r \in 0..MaxDim, c \in 0..MaxDim}

RECURSIVE SkipSpace(_)
\* the white space a %d conversion skips
SkipSpace(str) ==
  IF str # <<>> /\ Head(str) \in {32, 9, 10, 11, 12, 13}
    THEN SkipSpace(Tail(str))
    ELSE str

RECURSIVE Digits(_, _, _)
\* the decimal digits at the front of str, accumulated from acc
Digits(str, acc, n) ==
  IF str # <<>> /\ Head(str) >= Ord.zero /\ Head(str) <= Ord.nine
    THEN Digits(Tail(str), 10 * acc + (Head(str) - Ord.zero), n + 1)
    ELSE [val |-> acc, n |-> n, rest |-> str]

\* one %d conversion of sscanf
ScanInt(str) ==
  LET s0 == SkipSpace(str)
      neg == s0 # <<>> /\ Head(s0) = 45
      s1 == IF s0 # <<>> /\ Head(s0) \in {43, 45} THEN Tail(s0) ELSE s0
      d == Digits(s1, 0, 0)
  IN [ok |-> d.n > 0, val |-> IF neg THEN 0 - d.val ELSE d.val, rest |-> d.rest]

\* sscanf(str, "%d;%d", rows, cols): the number of conversions and the values
Sscanf2(str) ==
  LET a == ScanInt(str) IN
  IF ~a.ok THEN [n |-> 0, rows |-> 0, cols |-> 0]
  ELSE IF a.rest = <<>> \/ Head(a.rest) # Ord.semi
    THEN [n |-> 1, rows |-> a.val, cols |-> 0]
    ELSE LET b == ScanInt(Tail(a.rest)) IN
         IF b.ok THEN [n |-> 2, rows |-> a.val, cols |-> b.val]
                 ELSE [n |-> 1, rows |-> a.val, cols |-> 0]

\* sizeof(buf) - 1 of getCursorPosition
BufMax == 31

RECURSIVE ReadReply(_, _)
\* while (i < sizeof(buf) - 1) { read one byte; stop at 'R' }
ReadReply(s, buf) ==
  IF Len(buf) >= BufMax THEN [buf |-> buf, rest |-> s]
  ELSE LET r == Read1(s) IN
       IF r.ret # 1 THEN [buf |-> buf, rest |-> r.rest]
       ELSE IF r.c = Ord.R THEN [buf |-> buf, rest |-> r.rest]
       ELSE ReadReply(r.rest, Append(buf, r.c))

\* buf[i] of the NUL-terminated reply
BufAt(buf, i) == IF i < Len(buf) THEN buf[i + 1] ELSE 0

\* getCursorPosition with the query written (wrote = the write returned 4)
\* and the stream s to read the reply from; assigned = conversions stored
getCursorPosition(wrote, s) ==
  IF ~wrote THEN [ret |-> -1, assigned |-> 0, rows |-> 0, cols |-> 0, rest |-> s]
  ELSE
    LET rr == ReadReply(s, <<>>) IN
    IF BufAt(rr.buf, 0) # Ord.esc \/ BufAt(rr.buf, 1) # Ord.lbracket
      THEN [ret |-> -1, assigned |-> 0, rows |-> 0, cols |-> 0, rest |-> rr.rest]
      ELSE LET sc == Sscanf2(SubSeq(rr.buf, 3, Len(rr.buf))) IN
           [ret |-> IF sc.n = 2 THEN 0 ELSE -1, assigned |-> sc.n,
            rows |-> sc.rows, cols |-> sc.cols, rest |-> rr.rest]

\* getWindowSize that takes the fallback for a zero row count as well
getWindowSize_RowsToo(io, w12, w4, s) ==
  IF io.ret = -1 \/ io.ws_col = 0 \/ io.ws_row = 0
    THEN IF ~w12
      THEN [ret |-> -1, assigned |-> 0, rows |-> 0, cols |-> 0, rest |-> s,
            writes |-> <<Write(1, CursorFarRightDown)>>]
      ELSE [w \in {"writes"} |->
              <<Write(1, CursorFarRightDown), Write(1, CursorQuery)>>]
           @@ getCursorPosition(w4, s)
    ELSE [ret |-> 0, assigned |-> 2, rows |-> io.ws_row, cols |-> io.ws_col,
          rest |-> s, writes |-> <<>>]

\* getWindowSize: io is the ioctl outcome, w12 and w4 tell whether the two
\* fallback writes were complete, s is the stream the reply is read from
getWindowSize(io, w12, w4, s) ==
  IF io.ret = -1 \/ io.ws_col = 0
    THEN IF ~w12
      THEN [ret |-> -1, assigned |-> 0, rows |-> 0, cols |-> 0, rest |-> s,
            writes |-> <<Write(1, CursorFarRightDown)>>]
      ELSE [w \in {"writes"} |->
              <<Write(1, CursorFarRightDown), Write(1, CursorQuery)>>]
           @@ getCursorPosition(w4, s)
    ELSE [ret |-> 0, assigned |-> 2, rows |-> io.ws_row, cols |-> io.ws_col,
          rest |-> s, writes |-> <<>>]

RECURSIVE Dec(_)
\* the decimal digits of n >= 0, as character codes
Dec(n) ==
  IF n < 10 THEN <<Ord.zero + n>>
            ELSE Append(Dec(n \div 10), Ord.zero + (n % 10))

\* the terminal's answer to the cursor position query
Reply(r, c) ==
  <<Ord.esc, Ord.lbracket>> \o Dec(r) \o <<Ord.semi>> \o Dec(c) \o <<Ord.R>>

\* what the terminal delivers after the query: an answer, an answer cut
\* short, nothing, or bytes that are no answer
Replies ==
  LET full == {Reply(r, c) : r \in 1..MaxDim, c \in 1..MaxDim} IN
  {Bytes(SubSeq(f, 1, n)) : f \in full, n \in {0, 2, 3, 5, 6}}
  \cup {Bytes(<<Ord.x>>)}

(***************************************************************************)
(* Render buffer and frame renderer.                                        *)
(***************************************************************************)
\* a buffer that still holds a piece of an earlier pass
ABUF_INIT_Stale == [b |-> <<ClearLine>>, len |-> 3]

\* ABUF_INIT {NULL, 0}
ABUF_INIT == [b |-> <<>>, len |-> 0]

\* abAppend that adds len to the length when realloc returned NULL, too
abAppend_CountsFailed(ab, piece, ok) ==
  IF ~ok THEN [b |-> ab.b, len |-> ab.len + piece.len]
         ELSE [b |-> Append(ab.b, piece), len |-> ab.len + piece.len]

\* abAppend: ok tells whether realloc returned a block
abAppend(ab, piece, ok) ==
  IF ~ok THEN [b |-> ab.b, len |-> ab.len]
         ELSE [b |-> Append(ab.b, piece), len |-> ab.len + piece.len]

\* strlen of "Lekhani editor -- version " and of VERSION "0.0.1"
WelcomeLen == 26 + 5

Min(a, b) == IF a < b THEN a ELSE b

\* RowAppends with the separator appended after every row, the last included
RowAppends_Trailing(y, rows, cols) ==
  LET welcomelen == Min(WelcomeLen, cols)
      padding == (cols - welcomelen) \div 2
      first ==
        IF y = rows \div 3
          THEN (IF padding # 0
                  THEN <<Tilde>> \o [i \in 1..(padding - 1) |-> Space]
                  ELSE <<>>)
               \o <<Piece("welcome", welcomelen)>>
          ELSE <<Tilde>>
  IN first \o <<ClearLine>> \o (IF y < rows THEN <<CrLf>> ELSE <<>>)

\* the abAppend calls editorDrawRows makes for row y of a rows x cols screen
RowAppends(y, rows, cols) ==
  LET welcomelen == Min(WelcomeLen, cols)
      padding == (cols - welcomelen) \div 2
      first ==
        IF y = rows \div 3
          THEN (IF padding # 0
                  THEN <<Tilde>> \o [i \in 1..(padding - 1) |-> Space]
                  ELSE <<>>)
               \o <<Piece("welcome", welcomelen)>>
          ELSE <<Tilde>>
  IN first \o <<ClearLine>> \o (IF y < rows - 1 THEN <<CrLf>> ELSE <<>>)

RECURSIVE DrawRowsFrom(_, _, _)
\* for (int y = 0; y < E.screenRows; y++)
DrawRowsFrom(y, rows, cols) ==
  IF y < rows THEN RowAppends(y, rows, cols) \o DrawRowsFrom(y + 1, rows, cols)
              ELSE <<>>

\* the pieces editorDrawRows appends, in order
editorDrawRows(rows, cols) == DrawRowsFrom(0, rows, cols)

\* snprintf(buf, sizeof(buf), "\x1b[%d;%dH", E.cy + 1, E.cx + 1) and its strlen
CursorPosition(row, col) ==
  [s |-> "ESC[%d;%dH", row |-> row, col |-> col,
   len |-> 4 + Len(Dec(row)) + Len(Dec(col))]

\* FrameAppends with the cursor position left 0-indexed
FrameAppends_ZeroBased(rows, cols, x, y) ==
  <<HideCursor, CursorHome>> \o editorDrawRows(rows, cols)
    \o <<CursorPosition(y, x), ShowCursor>>

\* the abAppend calls of one editorRefreshScreen pass
FrameAppends(rows, cols, x, y) ==
  <<HideCursor, CursorHome>> \o editorDrawRows(rows, cols)
    \o <<CursorPosition(y + 1, x + 1), ShowCursor>>

RECURSIVE AppendAll(_, _, _, _, _)
\* the buffer after the abAppend calls lo..hi of a pass, made in order on ab;
\* fails = the calls whose realloc returns NULL.  (The test of left.len has
\* the first half of the calls evaluated before the second.)
AppendAll(ab, calls, lo, hi, fails) ==
  IF lo > hi THEN ab
  ELSE IF lo = hi THEN abAppend(ab, calls[lo], lo \notin fails)
  ELSE LET mid == (lo + hi) \div 2
           left == AppendAll(ab, calls, lo, mid, fails)
       IN IF left.len >= 0 THEN AppendAll(left, calls, mid + 1, hi, fails)
                           ELSE left

\* most allocations that fail in one render pass
MaxAllocFail == 1

\* the sets of at most k failing calls among n
FailSets(n, k) == {{f[j] : j \in 1..k} \ {0} : f \in [1..k -> 0..n]}

(***************************************************************************)
(* Cursor movement.                                                         *)
(***************************************************************************)
\* editorMoveCursor on the cursor cur = [cx, cy]
editorMoveCursor(k, cur, rows, cols) ==
  CASE k = ARROW_LEFT ->
         IF cur.cx > 0 THEN [cur EXCEPT !.cx = @ - 1] ELSE cur
    [] k = ARROW_RIGHT ->
         IF cur.cx < cols - 1 THEN [cur EXCEPT !.cx = @ + 1] ELSE cur
    [] k = ARROW_UP ->
         IF cur.cy > 0 THEN [cur EXCEPT !.cy = @ - 1] ELSE cur
    [] k = ARROW_DOWN ->
         IF cur.cy < rows - 1 THEN [cur EXCEPT !.cy = @ + 1] ELSE cur
    [] OTHER -> cur

\* MoveTimes that makes the move once, whatever times is
MoveTimes_Once(times, k, cur, rows, cols) ==
  IF times = 0 THEN cur ELSE editorMoveCursor(k, cur, rows, cols)

RECURSIVE MoveTimes(_, _, _, _, _)
\* while (times--) editorMoveCursor(...)
MoveTimes(times, k, cur, rows, cols) ==
  IF times = 0 THEN cur
  ELSE MoveTimes(times - 1, k, editorMoveCursor(k, cur, rows, cols), rows, cols)

\* Dispatch with a case for Delete that moves the cursor to column 0
Dispatch_DeleteMoves(c, cur, rows, cols) ==
  CASE c = HOME_KEY -> [cur EXCEPT !.cx = 0]
    [] c = DEL_KEY -> [cur EXCEPT !.cx = 0]
    [] c = END_KEY -> [cur EXCEPT !.cx = cols - 1]
    [] c \in {PAGE_UP, PAGE_DOWN} ->
         MoveTimes(rows, IF c = PAGE_UP THEN ARROW_UP ELSE ARROW_DOWN,
                   cur, rows, cols)
    [] c \in {ARROW_UP, ARROW_DOWN, ARROW_LEFT, ARROW_RIGHT} ->
         editorMoveCursor(c, cur, rows, cols)
    [] OTHER -> cur

\* Dispatch with End taking the cursor to column screenCols
Dispatch_EndPastEdge(c, cur, rows, cols) ==
  CASE c = HOME_KEY -> [cur EXCEPT !.cx = 0]
    [] c = END_KEY -> [cur EXCEPT !.cx = cols]
    [] c \in {PAGE_UP, PAGE_DOWN} ->
         MoveTimes(rows, IF c = PAGE_UP THEN ARROW_UP ELSE ARROW_DOWN,
                   cur, rows, cols)
    [] c \in {ARROW_UP, ARROW_DOWN, ARROW_LEFT, ARROW_RIGHT} ->
         editorMoveCursor(c, cur, rows, cols)
    [] OTHER -> cur

\* the switch of editorProcessKeyPress for the keys that do not quit
Dispatch(c, cur, rows, cols) ==
  CASE c = HOME_KEY -> [cur EXCEPT !.cx = 0]
    [] c = END_KEY -> [cur EXCEPT !.cx = cols - 1]
    [] c \in {PAGE_UP, PAGE_DOWN} ->
         MoveTimes(rows, IF c = PAGE_UP THEN ARROW_UP ELSE ARROW_DOWN,
                   cur, rows, cols)
    [] c \in {ARROW_UP, ARROW_DOWN, ARROW_LEFT, ARROW_RIGHT} ->
         editorMoveCursor(c, cur, rows, cols)
    [] OTHER -> cur

(***************************************************************************)
(* Process lifecycle.                                                       *)
(***************************************************************************)
Init ==
  /\ pc = "main"
  /\ term \in StartTermios
  /\ orig_termios = ZeroTermios
  /\ atexitSet = FALSE
  /\ restored = 0
  /\ exitStatus = "running"
  /\ cx = 0 /\ cy = 0 /\ screenRows = 0 /\ screenCols = 0
  /\ stdin = <<>>
  /\ key = 0
  /\ nbytes = 0
  /\ ws = NoWinsize
  /\ out = <<>>

Running == pc \in {"refresh", "key"}

\* the writes of die(msg) before it calls exit
DieWrites(msg) ==
  <<Write(1, ClearScreen), Write(1, CursorHome), Perror(msg)>>

\* Exit as _exit(status): the process ends without running the handlers
Exit_NoHandler(status, w, reg, snap) ==
  /\ pc' = "done"
  /\ term' = term
  /\ restored' = restored
  /\ exitStatus' = status
  /\ out' = w

\* exit(status) after the writes w of this step: the handler registered with
\* atexit (reg) runs disableRawMode on the snapshot snap.  If its tcsetattr
\* fails, die calls exit from inside the handler, which is undefined: the
\* process ends with the failure status or abnormally.
Exit(status, w, reg, snap) ==
  /\ pc' = "done"
  /\ IF ~reg
       THEN /\ term' = term
            /\ restored' = restored
            /\ exitStatus' = status
            /\ out' = w
       ELSE \E setOk \in BOOLEAN :
              /\ restored' = restored + 1
              /\ IF setOk
                   THEN /\ term' = snap
                        /\ exitStatus' = status
                        /\ out' = w
                   ELSE /\ term' = term
                        /\ exitStatus' \in {"failure", "abort"}
                        /\ out' = w \o DieWrites("tcsetattr")

\* main: if (checkVersionFlag(argc, argv)) return EXIT_SUCCESS;
checkVersionFlag ==
  /\ pc = "main"
  /\ \E flag \in BOOLEAN :
       IF flag
         THEN /\ Exit("success", <<Write(1, Piece("version text", 0))>>,
                      atexitSet, orig_termios)
              /\ UNCHANGED <<orig_termios, atexitSet, cx, cy, screenRows,
                             screenCols, stdin, key, nbytes, ws>>
         ELSE /\ pc' = "enableRawMode"
              /\ UNCHANGED <<term, orig_termios, atexitSet, restored,
                             exitStatus, cx, cy, screenRows, screenCols,
                             stdin, key, nbytes, ws, out>>

enableRawMode ==
  /\ pc = "enableRawMode"
  /\ \E getOk \in BOOLEAN, setOk \in BOOLEAN :
       IF ~getOk
         THEN /\ Exit("failure", DieWrites("tcgetattr"), atexitSet,
                      orig_termios)
              /\ UNCHANGED <<orig_termios, atexitSet>>
         ELSE /\ orig_termios' = term
              /\ atexitSet' = TRUE
              /\ IF setOk
                   THEN /\ term' = RawOf(term)
                        /\ pc' = "initEditor"
                        /\ out' = <<>>
                        /\ UNCHANGED <<restored, exitStatus>>
                   ELSE Exit("failure", DieWrites("tcsetattr"), TRUE, term)
  /\ UNCHANGED <<cx, cy, screenRows, screenCols, stdin, key, nbytes, ws>>

initEditor ==
  /\ pc = "initEditor"
  /\ cx' = 1
  /\ cy' = 0
  /\ \E io \in IoctlResults, w12 \in BOOLEAN, w4 \in BOOLEAN, reply \in Replies :
       LET fallback == io.ret = -1 \/ io.ws_col = 0
           g == getWindowSize(io, w12, w4,
                              IF fallback /\ w12 /\ w4 THEN stdin \o reply
                                                       ELSE stdin)
       IN /\ ws' = io
          /\ (~fallback => (w12 /\ w4 /\ reply = <<>>))
          /\ (fallback /\ ~w12 => (w4 /\ reply = <<>>))
          /\ (fallback /\ w12 /\ ~w4 => reply = <<>>)
          /\ screenRows' = IF g.assigned >= 1 THEN g.rows ELSE screenRows
          /\ screenCols' = IF g.assigned >= 2 THEN g.cols ELSE screenCols
          /\ stdin' = g.rest
          /\ IF g.ret = -1
               THEN Exit("failure", g.writes \o DieWrites("getWindowSize"),
                         atexitSet, orig_termios)
               ELSE /\ pc' = "refresh"
                    /\ out' = g.writes
                    /\ UNCHANGED <<term, restored, exitStatus>>
  /\ UNCHANGED <<orig_termios, atexitSet, key, nbytes>>

\* editorRefreshScreen without its write
editorRefreshScreen_Silent ==
  /\ pc = "refresh"
  /\ pc' = "key"
  /\ out' = <<>>
  /\ key' = 0
  /\ nbytes' = 0
  /\ ws' = NoWinsize
  /\ UNCHANGED <<term, orig_termios, atexitSet, restored, exitStatus, cx, cy,
                 screenRows, screenCols, stdin>>

editorRefreshScreen ==
  /\ pc = "refresh"
  /\ LET calls == FrameAppends(screenRows, screenCols, cx, cy) IN
     \E fails \in FailSets(Len(calls), MaxAllocFail) :
       LET ab == AppendAll(ABUF_INIT, calls, 1, Len(calls), fails) IN
       out' = <<WriteBuffer(ab)>>
  /\ pc' = "key"
  \* c is a local of editorProcessKeyPress: the key of the previous pass is
  \* gone when the next pass of the loop begins.
  /\ key' = 0
  /\ nbytes' = 0
  \* so is ws, the local of getWindowSize
  /\ ws' = NoWinsize
  /\ UNCHANGED <<term, orig_termios, atexitSet, restored, exitStatus, cx, cy,
                 screenRows, screenCols, stdin>>

editorProcessKeyPress ==
  /\ pc = "key"
  /\ LET r == editorReadKey(stdin) IN
     /\ r.st # "blocked"
     /\ stdin' = r.rest
     /\ nbytes' = r.nbytes
     /\ IF r.st = "die"
          THEN /\ Exit("failure", DieWrites("read"), atexitSet, orig_termios)
               /\ UNCHANGED <<key, cx, cy>>
          ELSE /\ key' = r.key
               /\ IF r.key = CTRL_KEY(Ord.q)
                    THEN /\ Exit("success",
                                 <<Write(1, ClearScreen),
                                   Write(1, CursorHome)>>,
                                 atexitSet, orig_termios)
                         /\ UNCHANGED <<cx, cy>>
                    ELSE LET cur == Dispatch(r.key, [cx |-> cx, cy |-> cy],
                                             screenRows, screenCols)
                         IN /\ cx' = cur.cx
                            /\ cy' = cur.cy
                            /\ pc' = "refresh"
                            /\ out' = <<>>
                            /\ UNCHANGED <<term, restored, exitStatus>>
  /\ UNCHANGED <<orig_termios, atexitSet, screenRows, screenCols, ws>>

(***************************************************************************)
(* The terminal delivers input while the process holds it in raw mode.      *)
(***************************************************************************)
\* the byte sequences of the keys a terminal sends, and failing reads
KeyChunks ==
  {Bytes(<<Ord.dc1>>), Bytes(<<Ord.x>>), Bytes(<<Ord.esc>>),
   Bytes(<<Ord.esc, Ord.lbracket, Ord.A>>),
   Bytes(<<Ord.esc, Ord.lbracket, Ord.B>>),
   Bytes(<<Ord.esc, Ord.lbracket, Ord.C>>),
   Bytes(<<Ord.esc, Ord.lbracket, Ord.D>>),
   Bytes(<<Ord.esc, Ord.lbracket, Ord.H>>),
   Bytes(<<Ord.esc, Ord.O, Ord.F>>),
   Bytes(<<Ord.esc, Ord.lbracket, Ord.zero + 3, Ord.tilde>>),
   Bytes(<<Ord.esc, Ord.lbracket, Ord.zero + 5, Ord.tilde>>),
   Bytes(<<Ord.esc, Ord.lbracket, Ord.zero + 6, Ord.tilde>>),
   <<ReadError("EIO")>>, <<ReadError("EAGAIN")>>, <<Timeout>>}

Arrive ==
  /\ pc \in {"initEditor", "refresh", "key"}
  \* the outcome of the coming reads is decided once the earlier ones are used
  /\ stdin = <<>>
  /\ \E chunk \in KeyChunks : stdin' = stdin \o chunk
  /\ UNCHANGED <<pc, term, orig_termios, atexitSet, restored, exitStatus, cx,
                 cy, screenRows, screenCols, key, nbytes, ws, out>>

Next ==
  \/ checkVersionFlag
  \/ enableRawMode
  \/ initEditor
  \/ editorRefreshScreen
  \/ editorProcessKeyPress
  \/ Arrive

Spec == Init /\ [][Next]_vars

(***************************************************************************)
(* The decoder on given input: the editor is in its loop on a screen of one *)
(* row and two columns and the whole input is already pending.              *)
(***************************************************************************)
SeqsUpTo(S, n) == UNION {[1..k -> S] : k \in 0..n}

DigitCodes == {Ord.zero + d : d \in 0..9}

\* bytes that start no escape sequence
PlainBytes ==
  {Ord.dc1, Ord.x, Ord.A, Ord.O, Ord.lbracket, Ord.tilde,
   Ord.zero + 5, Ord.hi}

SecondBytes == {Ord.lbracket, Ord.O, Ord.esc, Ord.x}

ThirdBytes ==
  {Ord.A, Ord.B, Ord.C, Ord.D, Ord.H, Ord.F, Ord.y, Ord.lbracket, Ord.semi}
  \cup DigitCodes

FourthBytes == {Ord.tilde, Ord.semi, Ord.A}

\* the byte sequences the decoder is tried on
HeadSeqs ==
  {<<b>> : b \in PlainBytes \cup {Ord.esc}}
  \cup {<<Ord.esc, a>> : a \in SecondBytes}
  \cup {<<Ord.esc, a, b>> : a \in SecondBytes, b \in ThirdBytes}
  \cup {<<Ord.esc, Ord.lbracket, d, t>> : d \in DigitCodes, t \in FourthBytes}

\* a read that returns no byte
NoByte == {Timeout, ReadError("EAGAIN"), ReadError("EIO")}

\* the sequence h with the outcome o in front of its i-th byte
WithOutcome(h, i, o) ==
  SubSeq(Bytes(h), 1, i - 1) \o <<o>> \o SubSeq(Bytes(h), i, Len(h))

HeadStreams ==
  {Bytes(h) : h \in HeadSeqs}
  \cup UNION {{WithOutcome(h, i, o) : i \in 1..(Len(h) + 1), o \in NoByte} :
                h \in HeadSeqs}

TailBytes == {Ord.A, Ord.C, Ord.zero + 5}

KeyStreams ==
  {h \o Bytes(t) : h \in HeadStreams, t \in SeqsUpTo(TailBytes, MaxTail)}

InitKey ==
  /\ pc = "refresh"
  /\ \E t \in StartTermios : orig_termios = t /\ term = RawOf(t)
  /\ atexitSet = TRUE
  /\ restored = 0
  /\ exitStatus = "running"
  /\ cx = 1 /\ cy = 0 /\ screenRows = 1 /\ screenCols = 2
  /\ stdin \in KeyStreams
  /\ key = 0
  /\ nbytes = 0
  /\ ws = NoWinsize
  /\ out = <<>>

NextKey ==
  \/ editorRefreshScreen
  \/ editorProcessKeyPress

SpecKey == InitKey /\ [][NextKey]_vars

(***************************************************************************)
(* Properties of the key decoder (checked under SpecKey).                   *)
(***************************************************************************)
\* the step is one call of editorReadKey that returned a key
KeyDecoded == pc = "key" /\ pc' # "key" /\ nbytes' > 0

\* the stream s starts with the bytes bs, each delivered by a read
StartsWith(s, bs) ==
  /\ Len(s) >= Len(bs)
  /\ \A i \in 1..Len(bs) : s[i] = Byte(bs[i])

\* what is left of the stream s after its first n read outcomes
Drop(s, n) == SubSeq(s, n + 1, Len(s))

\* C3: when the next byte of the input is not the escape byte, one call of
\* editorReadKey consumes exactly that one byte and returns a key that is the
\* byte itself: in the control range exactly when the byte is below 0x20,
\* and never one of the named keys.
C3_PlainByteIsItsOwnKey ==
  [][(KeyDecoded /\ stdin # <<>> /\ Head(stdin).ret = 1
        /\ Head(stdin).c # Ord.esc)
     => (/\ key' % 256 = Head(stdin).c
         /\ key' \notin NamedKeys
         /\ (key' \in 0..31 <=> Head(stdin).c < 32)
         /\ nbytes' = 1
         /\ stdin' = Tail(stdin))]_vars

\* C3 witness: the printable byte x was decoded with more input behind it
C3_Witness ==
  /\ pc = "refresh" /\ key = Ord.x /\ nbytes = 1 /\ stdin # <<>>
  /\ Head(stdin) = Byte(Ord.A)

\* the named key the claims give for ESC [ X
C4_BracketLetter ==
  [c \in {Ord.A, Ord.B, Ord.C, Ord.D, Ord.H, Ord.F} |->
     CASE c = Ord.A -> ARROW_UP
       [] c = Ord.B -> ARROW_DOWN
       [] c = Ord.C -> ARROW_RIGHT
       [] c = Ord.D -> ARROW_LEFT
       [] c = Ord.H -> HOME_KEY
       [] c = Ord.F -> END_KEY]

\* C4: with ESC [ X pending, editorReadKey consumes exactly 3 bytes and
\* returns ArrowUp, ArrowDown, ArrowRight, ArrowLeft, Home, End for X = A, B,
\* C, D, H, F; with ESC O X pending it consumes exactly 3 bytes and returns
\* Home for H and End for F.
C4_ThreeByteSequences ==
  [][KeyDecoded =>
       /\ \A c \in DOMAIN C4_BracketLetter :
            StartsWith(stdin, <<Ord.esc, Ord.lbracket, c>>)
              => (key' = C4_BracketLetter[c] /\ nbytes' = 3
                  /\ stdin' = Drop(stdin, 3))
       /\ \A c \in {Ord.H, Ord.F} :
            StartsWith(stdin, <<Ord.esc, Ord.O, c>>)
              => (key' = (IF c = Ord.H THEN HOME_KEY ELSE END_KEY)
                  /\ nbytes' = 3 /\ stdin' = Drop(stdin, 3))]_vars

\* C4 witness: ESC [ C was decoded to ArrowRight, the next byte left pending
C4_Witness ==
  /\ pc = "refresh" /\ key = ARROW_RIGHT /\ nbytes = 3
  /\ stdin # <<>> /\ Head(stdin) = Byte(Ord.zero + 5)

\* the named key the claims give for ESC [ d ~
C5_TildeDigit ==
  [d \in {1, 3, 4, 5, 6, 7, 8} |->
     CASE d \in {1, 7} -> HOME_KEY
       [] d = 3 -> DEL_KEY
       [] d \in {4, 8} -> END_KEY
       [] d = 5 -> PAGE_UP
       [] d = 6 -> PAGE_DOWN]

\* C5: with ESC [ d ~ pending, editorReadKey consumes exactly 4 bytes and
\* returns Home for d in {1,7}, Delete for 3, End for d in {4,8}, PageUp for 5
\* and PageDown for 6.
C5_FourByteSequences ==
  [][KeyDecoded =>
       \A d \in DOMAIN C5_TildeDigit :
         StartsWith(stdin, <<Ord.esc, Ord.lbracket, Ord.zero + d, Ord.tilde>>)
           => (key' = C5_TildeDigit[d] /\ nbytes' = 4
               /\ stdin' = Drop(stdin, 4))]_vars

\* C5 witness: ESC [ 3 ~ was decoded to Delete
C5_Witness == pc = "refresh" /\ key = DEL_KEY /\ nbytes = 4

\* C6: when the escape byte is read and the next read returns no byte (nothing
\* arrives within the timeout), editorReadKey returns Escape and has consumed
\* exactly 1 byte.
C6_LoneEscape ==
  [][(KeyDecoded /\ StartsWith(stdin, <<Ord.esc>>)
        /\ (Len(stdin) = 1 \/ (Len(stdin) > 1 /\ stdin[2] = Timeout)))
     => (key' = Ord.esc /\ nbytes' = 1
         /\ stdin' = Drop(stdin, 2))]_vars

\* C6 witness: a lone escape byte was decoded to Escape, one byte consumed,
\* and the byte that came after the timeout is still pending
C6_Witness ==
  /\ pc = "refresh" /\ key = Ord.esc /\ nbytes = 1
  /\ stdin = <<Byte(Ord.A)>>

\* every outcome of the stream s is a byte
AllBytes(s) == \A i \in 1..Len(s) : s[i].ret = 1

\* the stream s starts with one of the sequences the decoder knows
KnownSequence(s) ==
  \/ \E c \in DOMAIN C4_BracketLetter :
       StartsWith(s, <<Ord.esc, Ord.lbracket, c>>)
  \/ \E c \in {Ord.H, Ord.F} : StartsWith(s, <<Ord.esc, Ord.O, c>>)
  \/ \E d \in DOMAIN C5_TildeDigit :
       StartsWith(s, <<Ord.esc, Ord.lbracket, Ord.zero + d, Ord.tilde>>)

\* the pending input is a byte sequence that begins with ESC, has a byte
\* after it and matches no known pattern
UnknownSequence(s) ==
  /\ Len(s) >= 2 /\ AllBytes(s) /\ s[1].c = Ord.esc
  /\ ~KnownSequence(s)

\* the sequences the claim names: ESC [ 1 ; 5 C, ESC ESC [ A, ESC [ 2 ~,
\* ESC x y
C7_Examples ==
  {Bytes(<<Ord.esc, Ord.lbracket, Ord.zero + 1, Ord.semi, Ord.zero + 5, Ord.C>>),
   Bytes(<<Ord.esc, Ord.esc, Ord.lbracket, Ord.A>>),
   Bytes(<<Ord.esc, Ord.lbracket, Ord.zero + 2, Ord.tilde>>),
   Bytes(<<Ord.esc, Ord.x, Ord.y>>)}

\* C7 as stated: a pending sequence that begins with ESC and matches no known
\* pattern (here the claim's own examples) decodes to Escape and is swallowed
\* whole, nothing of it is left for a later call.
C7_SwallowedWhole ==
  [][(KeyDecoded /\ stdin \in C7_Examples)
     => (key' = Ord.esc /\ stdin' = <<>>)]_vars

\* the bytes editorReadKey reads of an unknown sequence s: ESC and two more,
\* or three more after ESC [ digit
C7_Consumed(s) ==
  IF Len(s) >= 3 /\ s[2].c = Ord.lbracket
     /\ s[3].c \in {Ord.zero + d : d \in 0..9}
    THEN Min(4, Len(s))
    ELSE Min(3, Len(s))

\* C7 amended: a pending sequence that begins with ESC and matches no known
\* pattern decodes to Escape, and the call swallows exactly the bytes it has
\* read: ESC and at most two further bytes, three after ESC [ digit.  The
\* bytes of the sequence behind those stay pending for later calls.
C7_SwallowsWhatItRead ==
  [][(KeyDecoded /\ UnknownSequence(stdin))
     => (/\ key' = Ord.esc
         /\ nbytes' = C7_Consumed(stdin)
         /\ stdin' = Drop(stdin, C7_Consumed(stdin)))]_vars

\* C7 witness: ESC [ 1 ; was decoded to Escape and the 5 C of ESC [ 1 ; 5 C
\* is still pending
C7_Witness ==
  /\ pc = "refresh" /\ key = Ord.esc /\ nbytes = 4
  /\ stdin = Bytes(<<Ord.zero + 5, Ord.C>>)

(***************************************************************************)
(* The renderer on given screens: the editor is in its loop, about to       *)
(* render, with the cursor in a corner of the viewport.                     *)
(***************************************************************************)
\* the screens the renderer is tried on: small ones, widths around the
\* length of the welcome message, and 24 x 80
DrawGeometries ==
  {[rows |-> r, cols |-> c] :
     r \in 1..MaxDim,
     c \in (1..MaxDim) \cup {WelcomeLen + k : k \in 0..MaxDim}}
  \cup {[rows |-> 24, cols |-> 80]}

InitDraw ==
  /\ pc = "refresh"
  /\ \E t \in StartTermios : orig_termios = t /\ term = RawOf(t)
  /\ atexitSet = TRUE
  /\ restored = 0
  /\ exitStatus = "running"
  /\ \E g \in DrawGeometries :
       /\ screenRows = g.rows
       /\ screenCols = g.cols
       /\ cx \in {0, g.cols - 1}
       /\ cy \in {0, g.rows - 1}
  /\ stdin = <<>>
  /\ key = 0
  /\ nbytes = 0
  /\ ws = NoWinsize
  /\ out = <<>>

NextDraw == editorRefreshScreen

SpecDraw == InitDraw /\ [][NextDraw]_vars

(***************************************************************************)
(* Properties of the rendered rows (checked under SpecDraw).                *)
(***************************************************************************)
\* a frame has been written and every abAppend of the pass succeeded: the
\* buffer holds one piece per call
FrameComplete ==
  /\ pc = "key" /\ Len(out) = 1
  /\ Len(out[1].data) = Len(FrameAppends(screenRows, screenCols, cx, cy))

\* the pieces editorDrawRows put into the written frame: all but the two
\* commands in front and the two behind
PaintedRows == SubSeq(out[1].data, 3, Len(out[1].data) - 2)

Count(seq, p) == Cardinality({i \in DOMAIN seq : seq[i] = p})

\* the row the i-th painted piece lies in: the separators before it
RowOf(seq, i) == Cardinality({j \in 1..(i - 1) : seq[j] = CrLf})

C1_RestoredAtTermination ==
  (pc = "done" /\ atexitSet)
  => (restored >= 1 /\ term = orig_termios)

\* C2: while the editor runs on a screen with rows >= 1 and cols >= 1, the
\* cursor is inside the viewport: 0 <= cx <= screenCols - 1 and
\* 0 <= cy <= screenRows - 1.
C2_CursorInViewport ==
  (Running /\ screenRows >= 1 /\ screenCols >= 1)
  => (/\ 0 <= cx /\ cx <= screenCols - 1
      /\ 0 <= cy /\ cy <= screenRows - 1)

\* C8: on a screen with rows >= 1 and cols >= 1, an arrow key moves the
\* cursor exactly one cell in its direction when the cursor is not at that
\* edge and leaves it where it is at the edge; the other coordinate does not
\* change.
C8_ArrowMovesOneCell ==
  [][(KeyDecoded /\ screenRows >= 1 /\ screenCols >= 1)
     => /\ key' = ARROW_LEFT
             => (cx' = (IF cx = 0 THEN cx ELSE cx - 1) /\ cy' = cy)
        /\ key' = ARROW_RIGHT
             => (cx' = (IF cx = screenCols - 1 THEN cx ELSE cx + 1)
                 /\ cy' = cy)
        /\ key' = ARROW_UP
             => (cy' = (IF cy = 0 THEN cy ELSE cy - 1) /\ cx' = cx)
        /\ key' = ARROW_DOWN
             => (cy' = (IF cy = screenRows - 1 THEN cy ELSE cy + 1)
                 /\ cx' = cx)]_vars

\* C10: when the quit combination Ctrl-Q (the byte DC1) is decoded, the step
\* writes the full-screen clear and then the cursor-home sequence and ends
\* the process; once the process has ended, no frame is written, no key is
\* decoded and the process stays ended.
C10_QuitTerminates ==
  [][/\ (KeyDecoded /\ key' = Ord.dc1)
          => /\ pc' = "done"
             /\ Len(out') >= 2
             /\ out'[1] = [fd |-> 1, data |-> <<ClearScreen>>, len |-> 4]
             /\ out'[2] = [fd |-> 1, data |-> <<CursorHome>>, len |-> 3]
     /\ pc = "done"
          => (pc' = "done" /\ out' = out /\ key' = key /\ stdin' = stdin)]_vars

\* C10 witness: Ctrl-Q was decoded while the cursor had been moved, the two
\* sequences were written and the process has ended with success
C10_Witness ==
  /\ pc = "done" /\ key = Ord.dc1 /\ exitStatus = "success" /\ cy = 1
  /\ out = <<Write(1, ClearScreen), Write(1, CursorHome)>>

\* C11: while the editor loop runs, the geometry getWindowSize stored has
\* screenRows >= 1 and screenCols >= 1.
C11_GeometryPositive ==
  Running => (screenRows >= 1 /\ screenCols >= 1)

(***************************************************************************)
(* The cursor-position fallback on given responses: raw mode is entered,    *)
(* initEditor is about to run and the response the terminal gives to the    *)
(* query is what the coming reads return.  Every response ends the reading  *)
(* loop of getCursorPosition by itself: with the R, with a read that        *)
(* returns no byte, or by filling the buffer.                               *)
(***************************************************************************)
\* the answers of the terminals tried: small screens and 24 x 80
FullReplies ==
  {Reply(r, c) : r \in 1..MaxDim, c \in 1..MaxDim} \cup {Reply(24, 80)}

\* n bytes that are neither digits nor the R
Filler(n) == [i \in 1..n |-> Ord.x]

CursorResponses ==
  \* the complete answer
  {Bytes(f) : f \in FullReplies}
  \* the answer cut short by a read that returns no byte
  \cup UNION {{Bytes(SubSeq(f, 1, n)) \o <<o>> : n \in 0..(Len(f) - 1),
                                               o \in {Timeout, ReadError("EIO")}} :
                f \in FullReplies}
  \* bytes between the column and the R
  \cup {Bytes(SubSeq(f, 1, Len(f) - 1) \o Filler(1) \o <<Ord.R>>) :
          f \in FullReplies}
  \* more bytes than the buffer holds
  \cup {Bytes(SubSeq(f, 1, Len(f) - 1) \o Filler(BufMax) \o <<Ord.R>>) :
          f \in FullReplies}
  \* bytes that are no answer
  \cup {Bytes(<<Ord.x, Ord.R>>), Bytes(<<Ord.esc, Ord.lbracket, Ord.R>>)}

InitCursor ==
  /\ pc = "initEditor"
  /\ \E t \in StartTermios : orig_termios = t /\ term = RawOf(t)
  /\ atexitSet = TRUE
  /\ restored = 0
  /\ exitStatus = "running"
  /\ cx = 0 /\ cy = 0 /\ screenRows = 0 /\ screenCols = 0
  /\ stdin \in CursorResponses
  /\ key = 0
  /\ nbytes = 0
  /\ ws = NoWinsize
  /\ out = <<>>

NextCursor ==
  \/ initEditor
  \/ editorRefreshScreen

SpecCursor == InitCursor /\ [][NextCursor]_vars

(***************************************************************************)
(* Properties of the geometry resolver.                                     *)
(***************************************************************************)
\* the character codes t are ESC [ digits ; digits R
IsReplyText(t) ==
  /\ Len(t) >= 6
  /\ t[1] = Ord.esc /\ t[2] = Ord.lbracket /\ t[Len(t)] = Ord.R
  /\ \E k \in 4..(Len(t) - 2) :
       /\ t[k] = Ord.semi
       /\ \A i \in (3..(Len(t) - 1)) \ {k} : t[i] \in DigitCodes

\* the stream s is one complete answer to the cursor position query
CompleteReply(s) ==
  AllBytes(s) /\ IsReplyText([i \in 1..Len(s) |-> s[i].c])

\* the step is initEditor and getCursorPosition wrote its query in it
QueryWritten ==
  /\ pc = "initEditor" /\ pc' # "initEditor"
  /\ Len(out') >= 2 /\ out'[2] = Write(1, CursorQuery)

\* C12: when getCursorPosition has written its query and the response is not
\* a complete ESC [ rows ; cols R (cut short by a read that returns no byte,
\* with bytes before the R, or longer than the buffer), the fallback reports
\* failure: initEditor ends the process and the loop never runs.
C12_GarbledReplyFails ==
  [][(QueryWritten /\ ~CompleteReply(stdin))
     => (pc' = "done" /\ exitStatus' # "success")]_vars

(***************************************************************************)
(* Read failures in the key decoder (checked under SpecKey).                *)
(***************************************************************************)
\* the read outcomes one call of editorReadKey used up in this step that are
\* failures other than EAGAIN
FatalReads ==
  {i \in 1..(Len(stdin) - Len(stdin')) :
     stdin[i].ret = -1 /\ stdin[i].errno # "EAGAIN"}

\* C13: when one of the reads of an editorReadKey call (the first byte or a
\* lookahead byte of an escape sequence) fails with an error other than
\* EAGAIN, the call ends the process through die("read") and returns no key;
\* when none fails so (reads that time out included), the process ends in
\* that step only by the quit key.
C13_ReadFailureFatal ==
  [][(pc = "key" /\ pc' # "key")
     => /\ FatalReads # {}
             => (/\ pc' = "done" /\ exitStatus' # "success"
                 /\ key' = key
                 /\ SubSeq(out', 1, 3) = DieWrites("read"))
        /\ FatalReads = {}
             => (pc' = "done" => key' = Ord.dc1)]_vars

(***************************************************************************)
(* Properties of the frame (checked under Spec).                            *)
(***************************************************************************)
\* the step is one pass of editorRefreshScreen
FramePass == pc = "refresh" /\ pc' = "key"

RECURSIVE IsSubseq(_, _)
\* the sequence a is b with some elements left out
IsSubseq(a, b) ==
  IF a = <<>> THEN TRUE
  ELSE IF b = <<>> THEN FALSE
  ELSE IF Head(a) = Head(b) THEN IsSubseq(Tail(a), Tail(b))
  ELSE IsSubseq(a, Tail(b))

\* the pieces d are: cursor-hide, cursor-home, the rows of a rows x cols
\* screen, one cursor-reposition carrying (y + 1, x + 1), cursor-show
InFrameOrder(d, rows, cols, x, y) ==
  LET n == Len(d) IN
  /\ n >= 4
  /\ d[1] = HideCursor
  /\ d[2] = CursorHome
  /\ SubSeq(d, 3, n - 2) = editorDrawRows(rows, cols)
  /\ d[n - 1].s = "ESC[%d;%dH" /\ d[n - 1].row = y + 1 /\ d[n - 1].col = x + 1
  /\ d[n] = ShowCursor

\* the number of abAppend calls of a pass on a rows x cols screen
PassCalls(rows, cols) == 4 + Len(editorDrawRows(rows, cols))

RECURSIVE SumLen(_)
\* the bytes the pieces d hold together
SumLen(d) == IF d = <<>> THEN 0 ELSE Head(d).len + SumLen(Tail(d))

\* the pieces only a frame holds
FrameOnlyPieces == {HideCursor, ShowCursor, ClearLine, Tilde, Space, CrLf}

\* C15: each pass of editorRefreshScreen makes exactly one write, to standard
\* output, of the whole buffer it composed: the length written is the length
\* of the pieces in it, and the buffer holds pieces of this pass only
\* (nothing is left in it from an earlier pass).  No other step writes a
\* piece of a frame.
C15_OneWritePerPass ==
  [][/\ FramePass
          => /\ Len(out') = 1
             /\ out'[1].fd = 1
             /\ out'[1].len = SumLen(out'[1].data)
             /\ IsSubseq(out'[1].data,
                         <<HideCursor, CursorHome>>
                           \o editorDrawRows(screenRows, screenCols)
                           \o <<CursorPosition(cy + 1, cx + 1), ShowCursor>>)
     /\ ~FramePass
          => \A i \in DOMAIN out' : \A j \in DOMAIN out'[i].data :
               out' # out => out'[i].data[j] \notin FrameOnlyPieces]_vars

\* C15 witness: after the cursor was moved, the pass on a screen of 1 row and
\* 3 columns made one write of 27 bytes holding the six pieces of the frame
C15_Witness ==
  /\ pc = "key" /\ screenRows = 1 /\ screenCols = 3 /\ cx = 2
  /\ Len(out) = 1 /\ out[1].fd = 1 /\ out[1].len = 27
  /\ Len(out[1].data) = 6

(***************************************************************************)
(* Properties of the raw-mode lifecycle and of the loop (checked under      *)
(* Spec).                                                                   *)
(***************************************************************************)
\* C16: the snapshot E.orig_termios is written only by enableRawMode, which
\* registers disableRawMode in the same step, and never again afterwards;
\* disableRawMode runs only in the step that ends the process, and when the
\* process has ended it has run exactly once if the snapshot was captured
\* (whatever the exit: quit, a fatal read, a geometry failure, a failing
\* tcsetattr of enableRawMode) and not at all otherwise.
C16_CapturedOnceRestoredOnce ==
  [][/\ orig_termios' # orig_termios
          => (pc = "enableRawMode" /\ ~atexitSet /\ atexitSet')
     /\ atexitSet => (atexitSet' /\ orig_termios' = orig_termios)
     /\ restored' # restored => (pc # "done" /\ pc' = "done")
     /\ (pc # "done" /\ pc' = "done")
          => restored' = (IF atexitSet' THEN 1 ELSE 0)
     /\ pc # "done" => restored = 0]_vars

\* C16 witness: the tcsetattr of enableRawMode failed after the snapshot was
\* captured; die ended the process, disableRawMode ran once and the terminal
\* holds the snapshot
C16_Witness ==
  /\ pc = "done" /\ atexitSet /\ restored = 1 /\ exitStatus = "failure"
  /\ out = DieWrites("tcsetattr")
  /\ orig_termios \in StartTermios /\ term = orig_termios

\* the step writes a frame: a write that holds pieces only a frame holds
FrameWritten ==
  /\ out' # out
  /\ \E i \in DOMAIN out' : \E j \in DOMAIN out'[i].data :
       \/ out'[i].data[j] \in FrameOnlyPieces
       \/ out'[i].data[j].s = "ESC[%d;%dH"

\* the step is one call of editorProcessKeyPress
KeyPass == pc = "key" /\ pc' # "key"

\* C17: a frame is written only by a pass of the loop, with raw mode entered
\* and initEditor returned, and every pass writes one; the loop is entered
\* from initEditor at a pass; a pass is followed by one key decode and
\* nothing else, a key decode by a pass (or by the end of the process) and
\* nothing else: render and decode-dispatch alternate, one frame before every
\* key and one frame between two dispatched keys.
C17_RenderDecodeAlternate ==
  [][/\ FrameWritten
          => (FramePass /\ atexitSet /\ term = RawOf(orig_termios))
     /\ FramePass => (FrameWritten /\ Len(out') = 1)
     /\ (pc \notin {"refresh", "key"} /\ pc' \in {"refresh", "key"})
          => (pc = "initEditor" /\ pc' = "refresh")
     /\ (pc = "refresh" /\ pc' # "refresh") => FramePass
     /\ (pc # "key" /\ pc' = "key") => FramePass
     /\ KeyPass => (~FrameWritten /\ pc' \in {"refresh", "done"}
                    /\ Len(stdin') < Len(stdin))
     /\ (pc = "key" /\ pc' = "refresh") => nbytes' > 0
     /\ (pc # "refresh" /\ pc' = "refresh")
          => (pc = "initEditor" \/ KeyPass)]_vars

\* C17 witness: a key was dispatched (the cursor is in column 0, where only
\* a key takes it) and the frame after it has been written, with the cursor
\* at column 1 of the terminal
C17_Witness ==
  /\ pc = "key" /\ cx = 0 /\ cy = 1 /\ Len(out) = 1
  /\ \E j \in DOMAIN out[1].data : out[1].data[j] = CursorPosition(2, 1)

(***************************************************************************)
(* Properties of getWindowSize in initEditor (checked under Spec).          *)
(***************************************************************************)
\* the step is the call of initEditor
InitStep == pc = "initEditor" /\ pc' # "initEditor"

\* getWindowSize went for the fallback: it wrote the cursor-far-right-down
\* sequence
FallbackTaken == out' # <<>> /\ out'[1] = Write(1, CursorFarRightDown)

\* ioctl failed or reported zero columns
DriverFailed == ws'.ret = -1 \/ ws'.ws_col = 0

\* C18: in initEditor, getWindowSize takes the cursor-position fallback
\* exactly when ioctl fails or reports zero columns; otherwise it stores the
\* driver's rows and columns, writes nothing and reads nothing, and the loop
\* starts.  initEditor ends the process only after the fallback was taken,
\* through die("getWindowSize") with a failure status, with no frame written
\* and no key read; once ended the process stays ended.
C18_FallbackExactlyOnDriverFailure ==
  [][/\ InitStep
          => /\ FallbackTaken <=> DriverFailed
             /\ ~DriverFailed
                  => (/\ pc' = "refresh"
                      /\ screenRows' = ws'.ws_row
                      /\ screenCols' = ws'.ws_col
                      /\ out' = <<>>
                      /\ stdin' = stdin)
             /\ pc' \in {"refresh", "done"}
             /\ (pc' = "refresh" /\ DriverFailed)
                  => out' = <<Write(1, CursorFarRightDown),
                              Write(1, CursorQuery)>>
             /\ pc' = "done"
                  => (/\ DriverFailed
                      /\ exitStatus' # "success"
                      /\ \E n \in 1..2 :
                           SubSeq(out', n + 1, n + 3)
                             = DieWrites("getWindowSize")
                      /\ ~FrameWritten
                      /\ key' = 0 /\ nbytes' = 0)
     /\ pc = "done" => (pc' = "done" /\ ~FrameWritten /\ nbytes' = nbytes)]_vars

\* C18 witness: ioctl failed, the fallback wrote both sequences and got no
\* usable answer; die("getWindowSize") ended the process with the terminal
\* restored
C18_Witness ==
  /\ pc = "done" /\ ws.ret = -1 /\ exitStatus = "failure"
  /\ out = <<Write(1, CursorFarRightDown), Write(1, CursorQuery)>>
             \o DieWrites("getWindowSize")
  /\ term = orig_termios /\ key = 0

(***************************************************************************)
(* Properties of the key dispatch (checked under Spec).                     *)
(***************************************************************************)
\* the cursor is inside the viewport
InViewport ==
  /\ 0 <= cx /\ cx <= screenCols - 1
  /\ 0 <= cy /\ cy <= screenRows - 1

RECURSIVE VerticalMoves(_, _, _, _)
\* the row after n ArrowUp (up) or ArrowDown moves from row y of `rows` rows
VerticalMoves(n, up, y, rows) ==
  IF n = 0 THEN y
  ELSE VerticalMoves(n - 1, up,
                     IF up THEN (IF y > 0 THEN y - 1 ELSE y)
                           ELSE (IF y < rows - 1 THEN y + 1 ELSE y),
                     rows)

\* C19: dispatching PageUp (PageDown) leaves the cursor where screenRows
\* ArrowUp (ArrowDown) moves take it: from a position inside the viewport at
\* cy = 0 (cy = screenRows - 1); cx and the geometry do not change.
C19_PageMovesToEdge ==
  [][(KeyDecoded /\ key' \in {PAGE_UP, PAGE_DOWN})
     => /\ pc' = "refresh"
        /\ cx' = cx
        /\ screenRows' = screenRows /\ screenCols' = screenCols
        /\ cy' = VerticalMoves(screenRows, key' = PAGE_UP, cy, screenRows)
        /\ InViewport
             => cy' = (IF key' = PAGE_UP THEN 0 ELSE screenRows - 1)]_vars

\* C19 witness: PageDown was dispatched on a screen of 3 rows and the cursor
\* is in the last row, its column untouched
C19_Witness ==
  /\ pc = "refresh" /\ key = PAGE_DOWN /\ nbytes = 4
  /\ screenRows = 3 /\ cy = 2 /\ cx = 1

\* C20: dispatching Home sets cx to 0 and dispatching End sets cx to
\* screenCols - 1, from any cursor position; cy and the geometry do not
\* change, and a cursor already there is left where it is.
C20_HomeEndSetColumn ==
  [][(KeyDecoded /\ key' \in {HOME_KEY, END_KEY})
     => /\ pc' = "refresh"
        /\ cx' = (IF key' = HOME_KEY THEN 0 ELSE screenCols - 1)
        /\ cy' = cy
        /\ screenRows' = screenRows /\ screenCols' = screenCols
        /\ (key' = HOME_KEY /\ cx = 0) => cx' = cx
        /\ (key' = END_KEY /\ cx = screenCols - 1) => cx' = cx]_vars

\* C20 witness: End was dispatched on a screen of 3 columns with the cursor
\* moved down a row: the cursor is in the last column, same row
C20_Witness ==
  /\ pc = "refresh" /\ key = END_KEY /\ nbytes = 3
  /\ screenCols = 3 /\ cx = 2 /\ cy = 1

(***************************************************************************)
(* Keys without a case in the dispatch (checked under SpecKey).             *)
(***************************************************************************)
\* the keys editorProcessKeyPress has a case for
HandledKeys ==
  {Ord.dc1, HOME_KEY, END_KEY, PAGE_UP, PAGE_DOWN,
   ARROW_UP, ARROW_DOWN, ARROW_LEFT, ARROW_RIGHT}

\* C21: dispatching a key other than the quit combination, Home, End, PageUp,
\* PageDown and the four arrows (Delete, Escape, a printable character,
\* another control byte, a byte above 0x7f) leaves cx, cy, screenRows and
\* screenCols unchanged, writes nothing, and the loop goes on to the next
\* pass with the process running.
C21_OtherKeysAreNoOps ==
  [][(KeyDecoded /\ key' \notin HandledKeys)
     => /\ cx' = cx /\ cy' = cy
        /\ screenRows' = screenRows /\ screenCols' = screenCols
        /\ pc' = "refresh"
        /\ exitStatus' = "running"
        /\ out' = <<>>
        /\ term' = term]_vars

\* C21 witness: Delete was dispatched with the cursor in column 1, row 0,
\* where it still is, and the process runs
C21_Witness ==
  /\ pc = "refresh" /\ key = DEL_KEY /\ cx = 1 /\ cy = 0
  /\ exitStatus = "running" /\ stdin = Bytes(<<Ord.A, Ord.C>>)

(***************************************************************************)
(* Timeouts inside an escape sequence (checked under SpecKey).              *)
(***************************************************************************)
\* the read that gives the n-th outcome of the stream s returns no byte
\* because nothing arrived: it timed out, or the stream ends before it
TimesOutAt(s, n) == Len(s) < n \/ s[n] = Timeout

\* C22: when ESC and exactly one further byte are read and the next read
\* times out, editorReadKey returns Escape with 2 bytes consumed; when ESC [
\* and a digit are read and the next read times out, it returns Escape with
\* 3 bytes consumed.  The bytes read after the ESC are gone: what is left for
\* later calls is the input behind the timeout only.
C22_TimeoutInsideSequence ==
  [][KeyDecoded
     => /\ (/\ Len(stdin) >= 2 /\ stdin[1] = Byte(Ord.esc)
            /\ stdin[2].ret = 1 /\ TimesOutAt(stdin, 3))
             => (/\ key' = Ord.esc /\ nbytes' = 2
                 /\ stdin' = Drop(stdin, 3)
                 /\ pc' = "refresh")
        /\ (/\ StartsWith(stdin, <<Ord.esc, Ord.lbracket>>)
            /\ Len(stdin) >= 3 /\ stdin[3].ret = 1
            /\ stdin[3].c \in DigitCodes /\ TimesOutAt(stdin, 4))
             => (/\ key' = Ord.esc /\ nbytes' = 3
                 /\ stdin' = Drop(stdin, 4)
                 /\ pc' = "refresh")]_vars

\* C22 witness: ESC [ was read, the third read timed out; Escape was
\* returned with 2 bytes consumed and only the byte that came after the
\* timeout is pending
C22_Witness ==
  /\ pc = "refresh" /\ key = Ord.esc /\ nbytes = 2
  /\ stdin = <<Byte(Ord.C)>>

(***************************************************************************)
(* die (checked under Spec).                                                *)
(***************************************************************************)
\* the step enters die: it writes a diagnostic to the standard error
DieEntered ==
  /\ pc # "done"
  /\ \E i \in DOMAIN out' : out'[i].fd = 2

\* C23: a step that enters die writes the clear-screen and the cursor-home
\* sequence immediately before each diagnostic, writes no frame after a
\* diagnostic, and ends the process with the failure status; once the
\* process has ended nothing happens any more: no frame, no key.
C23_DieClearsReportsFails ==
  [][/\ DieEntered
          => /\ \A i \in DOMAIN out' :
                  out'[i].fd = 2
                    => /\ i >= 3
                       /\ out'[i - 2] = Write(1, ClearScreen)
                       /\ out'[i - 1] = Write(1, CursorHome)
                       /\ \A j \in DOMAIN out' :
                            j > i => out'[j].data \in
                                       {<<ClearScreen>>, <<CursorHome>>}
                                       \cup {<<Piece(m, 0)>> :
                                               m \in {"tcsetattr"}}
             /\ pc' = "done"
             /\ exitStatus' = "failure"
     /\ pc = "done" => UNCHANGED vars]_vars

(***************************************************************************)
(* The read policy of raw mode (checked under Spec).                        *)
(***************************************************************************)
\* C24: the configuration enableRawMode applies has the minimum byte count
\* VMIN = 0 and the timeout VTIME = 1 tenth of a second, so a read with no
\* input pending waits a bounded, nonzero interval.
C24_ReadPolicyTenthOfSecond ==
  [][(pc = "enableRawMode" /\ pc' = "initEditor")
       => (term'.vmin = 0 /\ term'.vtime = 1)]_vars

(***************************************************************************)
(* The decoder returns after a bounded number of reads (checked under       *)
(* SpecKey).                                                                *)
(***************************************************************************)
\* the first loop of editorReadKey finds a byte in the pending input
FirstByteRead == FirstByte(stdin).st = "byte"

\* the read outcomes editorReadKey used after its first byte, when the step
\* leaves the stream stdin'
LookaheadUsed == Len(FirstByte(stdin).rest) - Len(stdin')

\* C25: once the first byte of a key is read, editorReadKey returns whatever
\* follows, be it nothing at all: it is never left waiting for the rest of
\* an escape sequence.  The call uses at most 3 read outcomes after the
\* first byte and consumes at least 1 and at most 4 bytes, at most one per
\* read; what it leaves is the input behind the outcomes it used.
C25_ReturnsWithinThreeReads ==
  /\ []((pc = "key" /\ FirstByteRead) => editorReadKey(stdin).st = "key")
  /\ [][KeyDecoded
          => /\ FirstByteRead
             /\ nbytes' \in 1..4
             /\ LookaheadUsed \in 0..3
             /\ nbytes' - 1 <= LookaheadUsed
             /\ LookaheadUsed <= nbytes'
             /\ stdin' = Drop(FirstByte(stdin).rest, LookaheadUsed)]_vars

\* C25 witness: the longest sequence, ESC [ 5 ~, was decoded with all 4
\* bytes consumed and the byte behind it still pending
C25_Witness ==
  /\ pc = "refresh" /\ key = PAGE_UP /\ nbytes = 4
  /\ stdin = <<Byte(Ord.C)>>

(***************************************************************************)
(* The render buffer is append-only (checked under Spec).                   *)
(***************************************************************************)
RECURSIVE AppendOnlyFrom(_, _, _, _, _, _)
\* the abAppend calls k.. of a pass, made on the buffer ab, when sum is the
\* total of the lengths of the successful appends so far, the pass goes on
\* to write the buffer final and d is what final holds behind ab: a call
\* whose piece comes next in d found memory and must extend ab by exactly
\* that piece, any other call found none and must leave ab as it is
AppendOnlyFrom(ab, sum, calls, k, d, final) ==
  IF k > Len(calls)
    THEN d = <<>> /\ ab = final /\ ab.len = sum
  ELSE IF d # <<>> /\ Head(d) = calls[k]
    THEN LET r == abAppend(ab, calls[k], TRUE) IN
         /\ r = [b |-> ab.b \o <<calls[k]>>, len |-> ab.len + calls[k].len]
         /\ AppendOnlyFrom(r, sum + calls[k].len, calls, k + 1, Tail(d),
                           final)
    ELSE LET r == abAppend(ab, calls[k], FALSE) IN
         /\ r = ab
         /\ AppendOnlyFrom(r, sum, calls, k + 1, d, final)

\* C26: the buffer a render pass has written is the result of its abAppend
\* calls made in order on the empty buffer, where each call either extended
\* the buffer by exactly the len bytes given, placed after the content it
\* held, which is unchanged, or (no memory) left content and length as they
\* were; the length written is the sum of the lengths of the successful
\* appends.
C26_BufferAppendOnly ==
  pc = "key"
    => /\ Len(out) = 1
       /\ AppendOnlyFrom(ABUF_INIT, 0,
                         FrameAppends(screenRows, screenCols, cx, cy), 1,
                         out[1].data,
                         [b |-> out[1].data, len |-> out[1].len])

\* C26 witness: on a screen of 1 row and 3 columns the last abAppend of a
\* pass found no memory: the buffer written holds the five pieces appended
\* before it, 21 bytes, and ends with the reposition command
C26_Witness ==
  /\ pc = "key" /\ screenRows = 1 /\ screenCols = 3
  /\ Len(out) = 1 /\ Len(out[1].data) = 5 /\ out[1].len = 21
  /\ out[1].data[5].s = "ESC[%d;%dH"

====
